---------------------------- MODULE Spec2Model ----------------------------
(***************************************************************************)
(* A state-machine model of health_checker.py: one run of main(), from     *)
(* argument parsing to the value handed to sys.exit, with the HealthChecker *)
(* object (client, jwt_token), the mocked transport (requests sent and the *)
(* answers the gateway can give) and the two asynchronous faults the code  *)
(* has handlers for: KeyboardInterrupt and an unexpected Exception.        *)
(***************************************************************************)
EXTENDS Integers, Sequences, FiniteSets, TLC

VARIABLES
    pc,           \* the statement of main / run_health_checks about to execute
    args,         \* argparse namespace (line 349)
    env,          \* process environment after load_dotenv (line 305)
    config,       \* dict built by load_config (lines 307-315)
    username,     \* main local (line 355)
    pin,          \* main local (line 356)
    providers,    \* main local / run_health_checks parameter (lines 368-371, 269)
    client,       \* HealthChecker.client: "none", "open", "closed"
    jwt_token,    \* HealthChecker.jwt_token
    regResult,    \* value returned by register_user: "none", "ok", "fail"
    authResp,     \* the answer register_user received
    idx,          \* position of the for loop of run_health_checks in providers
    cur,          \* result returned by the probe at line 282, not yet recorded
    lastResp,     \* the answer the probe at line 282 received
    results,      \* run_health_checks local: provider -> result
    summary,      \* the counts printed at lines 408-410
    pending,      \* how the try statement completes once finally has run
    outcome,      \* "running", "returned" (main returned), "raised" (main raised)
    exitCode,     \* value main returned (argument of sys.exit), -1 while there is none
    requests,     \* every request handed to the transport, in order (its path)
    probeCalls,   \* every probe invocation of line 282: provider and returned result
    stdout,       \* the lines printed that the properties speak about
    raised        \* every exception raised into main: its type and the pc it hit

vars == <<pc, args, env, config, username, pin, providers, client, jwt_token,
          regResult, authResp, idx, cur, lastResp, results, summary, pending,
          outcome, exitCode, requests, probeCalls, stdout, raised>>

\* ------------------------------------------------------------------ values

\* Python's None
None == "<None>"

\* bool(v) for the str-or-None values the program tests (lines 74, 142, 208, 359, 363)
Truthy(v) == v # None /\ v # ""

\* Python's `a or b` (lines 355, 356)
Or(a, b) == IF Truthy(a) THEN a ELSE b

HTTP_OK == 200

OPENAI_PLACEHOLDER == "your_openai_api_key_here"
ANTHROPIC_PLACEHOLDER == "your_anthropic_api_key_here"

\* provider_tests of run_health_checks (lines 273-277)
provider_tests == {"opensource", "openai", "anthropic"}

\* choices of --provider (line 344); None when the flag is not given
ProviderChoices == {"openai", "anthropic", "opensource"}

\* endpoint each probe posts to (lines 106, 172, 235)
Endpoint(p) ==
    CASE p = "opensource" -> "/opensource/v1/chat/completions"
      [] p = "openai" -> "/openai/v1/chat/completions"
      [] p = "anthropic" -> "/anthropic/v1/messages"

REGISTER_PATH == "/auth/register"

ProviderEndpoints == {Endpoint(p) : p \in provider_tests}

\* ------------------------------------------------------- response decoding

\* Bodies the gateway can answer with.
BodyTokenAbc == "{\"token\": \"abc\"}"
BodyTokenEmpty == "{\"token\": \"\"}"
BodyTokenNull == "{\"token\": null}"
BodyNoToken == "{\"detail\": \"ok\"}"
BodyCompletion == "{\"choices\": [{\"message\": {\"content\": \"Health check successful\"}}]}"
BodyHtml == "<html>502 Bad Gateway</html>"
BodyEmpty == ""
BodyInvalidCredentials == "{\"detail\": \"Invalid credentials\"}"
BodyServerError == "Internal Server Error"

\* Whether response.json() decodes the body (it raises otherwise)
IsJson(text) ==
    text \in {BodyTokenAbc, BodyTokenEmpty, BodyTokenNull, BodyNoToken,
              BodyCompletion, BodyInvalidCredentials}

\* response.json() of a decodable body: the dict, as a function from keys
JsonDecode(text) ==
    CASE text = BodyTokenAbc -> [token |-> "abc"]
      [] text = BodyTokenEmpty -> [token |-> ""]
      [] text = BodyTokenNull -> [token |-> None]
      [] text = BodyNoToken -> [detail |-> "ok"]
      [] text = BodyCompletion -> [choices |-> "Health check successful"]
      [] text = BodyInvalidCredentials -> [detail |-> "Invalid credentials"]

\* dict.get(key): the value, or None when the key is absent
DictGet(d, key) == IF key \in DOMAIN d THEN d[key] ELSE None

\* What client.post gives back: a response, or an exception of the transport
HttpResponse(status, text) ==
    [kind |-> "response", status_code |-> status, text |-> text, elapsed |-> 1]

TransportError(msg) ==
    [kind |-> "exception", status_code |-> 0, text |-> msg, elapsed |-> 0]

NoResponse == [kind |-> "none", status_code |-> 0, text |-> "", elapsed |-> 0]

AuthResponses ==
    { HttpResponse(200, b) :
        b \in {BodyTokenAbc, BodyTokenEmpty, BodyTokenNull, BodyNoToken, BodyHtml} }
    \cup { HttpResponse(401, BodyInvalidCredentials),
           TransportError("timed out") }

ProbeResponses ==
    { HttpResponse(200, BodyCompletion), HttpResponse(200, BodyHtml),
      HttpResponse(200, BodyEmpty), HttpResponse(500, BodyServerError),
      HttpResponse(401, BodyInvalidCredentials),
      TransportError("timed out") }


\* ------------------------------------------------------------ load_config

\* os.getenv(key, default): the default only when the variable is unset
Getenv(e, key, default) == IF e[key] = None THEN default ELSE e[key]

\* Whether int(s) parses (it raises ValueError otherwise)
IsInt(s) == s \in {"30", "5"}

\* int(s) of a parsable string
ParseInt(s) == CASE s = "30" -> 30 [] s = "5" -> 5

\* load_config(): the dict it returns; called only when it does not raise
load_config(e) ==
    [ OPENAI_API_KEY |-> Getenv(e, "OPENAI_API_KEY", None),
      ANTHROPIC_API_KEY |-> Getenv(e, "ANTHROPIC_API_KEY", None),
      PROXY_TIMEOUT |-> ParseInt(Getenv(e, "PROXY_TIMEOUT", "30")),
      DEFAULT_USERNAME |-> Getenv(e, "DEFAULT_USERNAME", None),
      DEFAULT_PIN |-> Getenv(e, "DEFAULT_PIN", None) ]

\* load_config() raises ValueError at line 312
load_config_raises(e) == ~IsInt(Getenv(e, "PROXY_TIMEOUT", "30"))

NoConfig ==
    [ OPENAI_API_KEY |-> None, ANTHROPIC_API_KEY |-> None, PROXY_TIMEOUT |-> 0,
      DEFAULT_USERNAME |-> None, DEFAULT_PIN |-> None ]

\* ------------------------------------------------------------------ inputs

\* What argparse can hand to main for the flags it declares (lines 338-347)
ArgSpace ==
    [ username : {None, "", "alice"},
      pin : {None, "1234"},
      provider : ProviderChoices \cup {None},
      show_token : BOOLEAN,
      token_only : BOOLEAN,
      verbose : BOOLEAN ]

\* The environment variables load_config reads (lines 308-314): unset (None),
\* empty, a placeholder of .env.example, or a value
EnvSpace ==
    [ OPENAI_API_KEY : {None, "", OPENAI_PLACEHOLDER, "sk-live"},
      ANTHROPIC_API_KEY : {None, ANTHROPIC_PLACEHOLDER, "sk-ant-live"},
      PROXY_TIMEOUT : {None, "abc"},
      DEFAULT_USERNAME : {None, "bob"},
      DEFAULT_PIN : {None, "0000"} ]

NoResult ==
    [ provider |-> None, status_code |-> 0, success |-> FALSE, response_time |-> 0,
      error |-> None, response_data |-> None ]

NoSummary == [total |-> 0, passed |-> 0, failed |-> 0]

NoPending == [kind |-> "none", code |-> 0, exc |-> None]

EmptyResults == [p \in {} |-> NoResult]

\* The state every run starts in, but for args and env
InitLocals ==
    /\ config = NoConfig
    /\ username = None
    /\ pin = None
    /\ providers = <<>>
    /\ client = "none"
    /\ jwt_token = None
    /\ regResult = "none"
    /\ authResp = NoResponse
    /\ idx = 0
    /\ cur = NoResult
    /\ lastResp = NoResponse
    /\ results = EmptyResults
    /\ summary = NoSummary
    /\ pending = NoPending
    /\ outcome = "running"
    /\ exitCode = -1
    /\ requests = <<>>
    /\ probeCalls = <<>>
    /\ stdout = <<>>
    /\ raised = <<>>

\* sys.exit(main()) is reached (line 425): main is about to run line 349
Init ==
    /\ pc = "parse_args"
    /\ args \in ArgSpace
    /\ env \in EnvSpace
    /\ InitLocals

\* ------------------------------------------------- how main is left

\* `return code` outside the try statement (lines 361, 365)
ReturnDirect(code) ==
    /\ pc' = "done"
    /\ outcome' = "returned"
    /\ exitCode' = code
    /\ UNCHANGED pending

\* Fault variant: a return of the try body that leaves main without the finally
\* clause of lines 421-422
ReturnInTry_SkipFinally(code) ==
    /\ pc' = "done"
    /\ outcome' = "returned"
    /\ exitCode' = code
    /\ UNCHANGED pending

\* `return code` inside the try statement: finally runs first (line 421)
ReturnInTry(code) ==
    /\ pc' = "finally"
    /\ pending' = [kind |-> "return", code |-> code, exc |-> None]
    /\ UNCHANGED <<outcome, exitCode>>

\* An exception nothing in main catches, raised outside the try statement
RaiseDirect ==
    /\ pc' = "done"
    /\ outcome' = "raised"
    /\ UNCHANGED <<exitCode, pending>>

\* An exception raised inside an except clause: finally runs, then it propagates
RaiseInHandler(exc) ==
    /\ pc' = "finally"
    /\ pending' = [kind |-> "raise", code |-> 0, exc |-> exc]
    /\ UNCHANGED <<outcome, exitCode>>

\* Statements of main before the try statement (lines 349-374)
PreTryPcs == {"parse_args", "load_config", "credentials", "select_providers",
              "construct", "enter_try"}

\* Statements inside the try body (lines 377-413), run_health_checks included
TryBodyPcs == {"banner", "register", "check_registration", "show_token",
               "run_health_checks", "rhc_loop", "probe_call", "probe_send",
               "rhc_record", "summary"}

\* The two except clauses (lines 415-420)
HandlerPcs == {"except_KeyboardInterrupt", "except_Exception"}

\* ------------------------------------------------------ main, lines 349-374

\* line 349: args = parser.parse_args()
ParseArgs ==
    /\ pc = "parse_args"
    /\ pc' = "load_config"
    /\ UNCHANGED <<args, env, config, username, pin, providers, client, jwt_token,
                   regResult, authResp, idx, cur, lastResp, results, summary,
                   pending, outcome, exitCode, requests, probeCalls, stdout, raised>>

\* line 352: config = load_config(); the ValueError of line 312 is caught nowhere
LoadConfig ==
    /\ pc = "load_config"
    /\ IF load_config_raises(env)
       THEN /\ raised' = Append(raised, [exc |-> "ValueError", at |-> pc])
            /\ RaiseDirect
            /\ UNCHANGED config
       ELSE /\ config' = load_config(env)
            /\ pc' = "credentials"
            /\ UNCHANGED <<raised, outcome, exitCode, pending>>
    /\ UNCHANGED <<args, env, username, pin, providers, client, jwt_token,
                   regResult, authResp, idx, cur, lastResp, results, summary,
                   requests, probeCalls, stdout>>

\* Fault variant of lines 355-365: the PIN test of lines 363-365 is missing
CheckCredentials_NoPinCheck ==
    /\ pc = "credentials"
    /\ username' = Or(args.username, config.DEFAULT_USERNAME)
    /\ pin' = Or(args.pin, config.DEFAULT_PIN)
    /\ IF ~Truthy(username')
       THEN /\ stdout' = Append(stdout, "Error: Username is required.")
            /\ ReturnDirect(1)
       ELSE /\ pc' = "select_providers"
            /\ UNCHANGED <<stdout, outcome, exitCode, pending>>
    /\ UNCHANGED <<args, env, config, providers, client, jwt_token, regResult,
                   authResp, idx, cur, lastResp, results, summary, requests,
                   probeCalls, raised>>

\* lines 355-365: resolve username and pin, return 1 when one is missing
CheckCredentials ==
    /\ pc = "credentials"
    /\ username' = Or(args.username, config.DEFAULT_USERNAME)
    /\ pin' = Or(args.pin, config.DEFAULT_PIN)
    /\ IF ~Truthy(username')
       THEN /\ stdout' = Append(stdout, "Error: Username is required.")
            /\ ReturnDirect(1)
       ELSE IF ~Truthy(pin')
       THEN /\ stdout' = Append(stdout, "Error: PIN is required.")
            /\ ReturnDirect(1)
       ELSE /\ pc' = "select_providers"
            /\ UNCHANGED <<stdout, outcome, exitCode, pending>>
    /\ UNCHANGED <<args, env, config, providers, client, jwt_token, regResult,
                   authResp, idx, cur, lastResp, results, summary, requests,
                   probeCalls, raised>>

\* lines 368-371: the provider list
SelectProviders ==
    /\ pc = "select_providers"
    /\ providers' = IF Truthy(args.provider) THEN <<args.provider>> ELSE <<"opensource">>
    /\ pc' = "construct"
    /\ UNCHANGED <<args, env, config, username, pin, client, jwt_token, regResult,
                   authResp, idx, cur, lastResp, results, summary, pending, outcome,
                   exitCode, requests, probeCalls, stdout, raised>>

\* line 374: checker = HealthChecker(config) (lines 58-61)
Construct ==
    /\ pc = "construct"
    /\ jwt_token' = None
    /\ client' = "open"
    /\ pc' = "enter_try"
    /\ UNCHANGED <<args, env, config, username, pin, providers, regResult, authResp,
                   idx, cur, lastResp, results, summary, pending, outcome, exitCode,
                   requests, probeCalls, stdout, raised>>

\* line 376: try:
EnterTry ==
    /\ pc = "enter_try"
    /\ pc' = "banner"
    /\ UNCHANGED <<args, env, config, username, pin, providers, client, jwt_token,
                   regResult, authResp, idx, cur, lastResp, results, summary,
                   pending, outcome, exitCode, requests, probeCalls, stdout, raised>>

\* ------------------------------------------------- HealthChecker methods

\* Fault variant of line 74: `if self.jwt_token is not None` for the truth test
register_user_NotNone(resp, old) ==
    IF resp.kind = "exception"
    THEN [ret |-> FALSE, jwt |-> old, line |-> "Registration error"]
    ELSE IF resp.status_code = HTTP_OK
    THEN IF ~IsJson(resp.text)
         THEN [ret |-> FALSE, jwt |-> old, line |-> "Registration error"]
         ELSE LET tok == DictGet(JsonDecode(resp.text), "token")
              IN  IF tok # None
                  THEN [ret |-> TRUE, jwt |-> tok, line |-> "Registration successful"]
                  ELSE [ret |-> FALSE, jwt |-> tok,
                        line |-> "Registration failed: No token received"]
    ELSE [ret |-> FALSE, jwt |-> old, line |-> "Registration failed"]

\* register_user (lines 63-86) on the answer of its one POST: the value it
\* returns, jwt_token afterwards (old when line 73 is not reached), the line printed
register_user(resp, old) ==
    IF resp.kind = "exception"
    THEN [ret |-> FALSE, jwt |-> old, line |-> "Registration error"]
    ELSE IF resp.status_code = HTTP_OK
    THEN IF ~IsJson(resp.text)
         THEN [ret |-> FALSE, jwt |-> old, line |-> "Registration error"]
         ELSE LET tok == DictGet(JsonDecode(resp.text), "token")
              IN  IF Truthy(tok)
                  THEN [ret |-> TRUE, jwt |-> tok, line |-> "Registration successful"]
                  ELSE [ret |-> FALSE, jwt |-> tok,
                        line |-> "Registration failed: No token received"]
    ELSE [ret |-> FALSE, jwt |-> old, line |-> "Registration failed"]

\* The except clause every probe ends with (lines 130-138, 196-204, 259-267)
ProbeExceptionResult(p, msg) ==
    [ provider |-> p, status_code |-> 0, success |-> FALSE, response_time |-> 0,
      error |-> msg, response_data |-> None ]

\* What a probe makes of the answer to its POST (lines 111-128, 177-194, 240-257)
ProbeOutcome(p, resp, verbose) ==
    IF resp.kind = "exception"
    THEN ProbeExceptionResult(p, resp.text)
    ELSE LET result == [ provider |-> p,
                         status_code |-> resp.status_code,
                         success |-> (resp.status_code = HTTP_OK),
                         response_time |-> resp.elapsed,
                         error |-> None,
                         response_data |-> None ]
         IN  IF resp.status_code = HTTP_OK
             THEN IF ~IsJson(resp.text)
                  THEN ProbeExceptionResult(p, "JSONDecodeError")
                  ELSE LET data == JsonDecode(resp.text)
                           withData == [result EXCEPT !.response_data = data]
                       IN  IF verbose
                           THEN [ k \in DOMAIN withData \cup {"full_response"} |->
                                    IF k = "full_response" THEN data ELSE withData[k] ]
                           ELSE withData
             ELSE [result EXCEPT !.error = resp.text]

\* test_opensource_provider: never gated (line 88-90)
opensource_gated(cfg) == FALSE

\* test_openai_provider line 142
openai_gated(cfg) ==
    ~Truthy(cfg.OPENAI_API_KEY) \/ cfg.OPENAI_API_KEY = OPENAI_PLACEHOLDER

\* Fault variant of line 208: the comparison with the placeholder is missing
anthropic_gated_NoPlaceholder(cfg) == ~Truthy(cfg.ANTHROPIC_API_KEY)

\* test_anthropic_provider line 208
anthropic_gated(cfg) ==
    ~Truthy(cfg.ANTHROPIC_API_KEY) \/ cfg.ANTHROPIC_API_KEY = ANTHROPIC_PLACEHOLDER

\* Whether provider p's probe returns before its try block, without a request
Gated(p, cfg) ==
    CASE p = "opensource" -> opensource_gated(cfg)
      [] p = "openai" -> openai_gated(cfg)
      [] p = "anthropic" -> anthropic_gated(cfg)

\* The result a gated probe returns (lines 143-150, 209-216)
GatedResult(p) ==
    [ provider |-> p, status_code |-> 0, success |-> FALSE, response_time |-> 0,
      error |-> IF p = "openai" THEN "OpenAI API key not configured"
                ELSE "Anthropic API key not configured",
      response_data |-> None ]

test_opensource_provider(resp, verbose) == ProbeOutcome("opensource", resp, verbose)

test_openai_provider(resp, verbose) == ProbeOutcome("openai", resp, verbose)

test_anthropic_provider(resp, verbose) == ProbeOutcome("anthropic", resp, verbose)

\* provider_tests[provider](verbose), once the request was answered by resp
ProbeResult(p, resp, verbose) ==
    CASE p = "opensource" -> test_opensource_provider(resp, verbose)
      [] p = "openai" -> test_openai_provider(resp, verbose)
      [] p = "anthropic" -> test_anthropic_provider(resp, verbose)

\* ------------------------------------------------------ main, lines 377-396

\* lines 377-383: the banner and "Registering user"
Banner ==
    /\ pc = "banner"
    /\ pc' = "register"
    /\ UNCHANGED <<args, env, config, username, pin, providers, client, jwt_token,
                   regResult, authResp, idx, cur, lastResp, results, summary,
                   pending, outcome, exitCode, requests, probeCalls, stdout, raised>>

\* line 384: checker.register_user(username, pin), its one POST included
RegisterUser ==
    /\ pc = "register"
    /\ \E resp \in AuthResponses :
         LET r == register_user(resp, jwt_token)
         IN  /\ requests' = Append(requests, REGISTER_PATH)
             /\ authResp' = resp
             /\ jwt_token' = r.jwt
             /\ regResult' = IF r.ret THEN "ok" ELSE "fail"
             /\ stdout' = Append(stdout, r.line)
    /\ pc' = "check_registration"
    /\ UNCHANGED <<args, env, config, username, pin, providers, client, idx, cur,
                   lastResp, results, summary, pending, outcome, exitCode,
                   probeCalls, raised>>

\* Fault variant of lines 384-386: the value of register_user is not tested
CheckRegistration_IgnoreFailure ==
    /\ pc = "check_registration"
    /\ pc' = "show_token"
    /\ UNCHANGED <<args, env, config, username, pin, providers, client, jwt_token,
                   regResult, authResp, idx, cur, lastResp, results, summary,
                   pending, outcome, exitCode, requests, probeCalls, stdout, raised>>

\* lines 384-386: `if not ...: return 1`
CheckRegistration ==
    /\ pc = "check_registration"
    /\ IF regResult = "fail"
       THEN /\ stdout' = Append(stdout, "Registration failed. Cannot proceed with health checks.")
            /\ ReturnInTry(1)
       ELSE /\ pc' = "show_token"
            /\ UNCHANGED <<stdout, pending, outcome, exitCode>>
    /\ UNCHANGED <<args, env, config, username, pin, providers, client, jwt_token,
                   regResult, authResp, idx, cur, lastResp, results, summary,
                   requests, probeCalls, raised>>

\* Fault variant of lines 389-396: token-only mode does not return at line 396
ShowToken_NoEarlyReturn ==
    /\ pc = "show_token"
    /\ stdout' = IF args.show_token \/ args.token_only
                 THEN stdout \o <<"JWT Token:", jwt_token>>
                 ELSE stdout
    /\ pc' = "run_health_checks"
    /\ UNCHANGED <<args, env, config, username, pin, providers, client, jwt_token,
                   regResult, authResp, idx, cur, lastResp, results, summary,
                   pending, outcome, exitCode, requests, probeCalls, raised>>

\* lines 389-396: print the token when asked to, stop there in token-only mode
ShowToken ==
    /\ pc = "show_token"
    /\ LET shown == IF args.show_token \/ args.token_only
                    THEN stdout \o <<"JWT Token:", jwt_token>>
                    ELSE stdout
       IN  IF args.token_only
           THEN /\ stdout' = Append(shown, "Token-only mode: Skipping health checks.")
                /\ ReturnInTry(0)
           ELSE /\ stdout' = shown
                /\ pc' = "run_health_checks"
                /\ UNCHANGED <<pending, outcome, exitCode>>
    /\ UNCHANGED <<args, env, config, username, pin, providers, client, jwt_token,
                   regResult, authResp, idx, cur, lastResp, results, summary,
                   requests, probeCalls, raised>>

\* ---------------------------------------- run_health_checks, lines 269-295

\* results[provider] = result (line 283): a dict keyed by provider name
DictSet(d, key, value) ==
    [k \in DOMAIN d \cup {key} |-> IF k = key THEN value ELSE d[k]]

\* The probe invocation in progress: the last entry of probeCalls, completed
ProbeReturned(calls, result) ==
    [calls EXCEPT ![Len(calls)] = [@ EXCEPT !.returned = TRUE, !.result = result]]

\* lines 399-400 and 271-277: main calls run_health_checks(providers, verbose)
RunHealthChecks ==
    /\ pc = "run_health_checks"
    /\ results' = EmptyResults
    /\ idx' = 1
    /\ pc' = "rhc_loop"
    /\ UNCHANGED <<args, env, config, username, pin, providers, client, jwt_token,
                   regResult, authResp, cur, lastResp, summary, pending, outcome,
                   exitCode, requests, probeCalls, stdout, raised>>

\* lines 279-281: the next provider of the list; a name without a probe is skipped
RhcLoop ==
    /\ pc = "rhc_loop"
    /\ idx <= Len(providers)
    /\ IF providers[idx] \in provider_tests
       THEN /\ stdout' = Append(stdout, "Testing provider...")
            /\ pc' = "probe_call"
            /\ UNCHANGED idx
       ELSE /\ idx' = idx + 1
            /\ UNCHANGED <<pc, stdout>>
    /\ UNCHANGED <<args, env, config, username, pin, providers, client, jwt_token,
                   regResult, authResp, cur, lastResp, results, summary, pending,
                   outcome, exitCode, requests, probeCalls, raised>>

\* line 282: provider_tests[provider](verbose) is called; a gated probe returns
\* at once (lines 142-150, 208-216), the others go on to their POST
ProbeCall ==
    /\ pc = "probe_call"
    /\ LET p == providers[idx]
           call == [provider |-> p, returned |-> FALSE, result |-> NoResult]
       IN  IF Gated(p, config)
           THEN /\ cur' = GatedResult(p)
                /\ probeCalls' = ProbeReturned(Append(probeCalls, call), GatedResult(p))
                /\ pc' = "rhc_record"
           ELSE /\ probeCalls' = Append(probeCalls, call)
                /\ pc' = "probe_send"
                /\ UNCHANGED cur
    /\ lastResp' = NoResponse
    /\ UNCHANGED <<args, env, config, username, pin, providers, client, jwt_token,
                   regResult, authResp, idx, results, summary, pending, outcome,
                   exitCode, requests, stdout, raised>>

\* The probe's one POST and the result it builds from the answer
\* (lines 105-138, 171-204, 234-267)
ProbeSend ==
    /\ pc = "probe_send"
    /\ \E resp \in ProbeResponses :
         LET p == providers[idx]
             result == ProbeResult(p, resp, args.verbose)
         IN  /\ requests' = Append(requests, Endpoint(p))
             /\ lastResp' = resp
             /\ cur' = result
             /\ probeCalls' = ProbeReturned(probeCalls, result)
    /\ pc' = "rhc_record"
    /\ UNCHANGED <<args, env, config, username, pin, providers, client, jwt_token,
                   regResult, authResp, idx, results, summary, pending, outcome,
                   exitCode, stdout, raised>>

\* Fault variant of lines 283-293: the loop is left after a failed probe
RhcRecord_StopOnFailure ==
    /\ pc = "rhc_record"
    /\ results' = DictSet(results, providers[idx], cur)
    /\ stdout' = Append(stdout, IF cur.success THEN "[PASS]" ELSE "[FAIL]")
    /\ idx' = IF cur.success THEN idx + 1 ELSE Len(providers) + 1
    /\ pc' = "rhc_loop"
    /\ UNCHANGED <<args, env, config, username, pin, providers, client, jwt_token,
                   regResult, authResp, cur, lastResp, summary, pending, outcome,
                   exitCode, requests, probeCalls, raised>>

\* lines 283-293: record the result, print its status line, go to the next provider
RhcRecord ==
    /\ pc = "rhc_record"
    /\ results' = DictSet(results, providers[idx], cur)
    /\ stdout' = Append(stdout, IF cur.success THEN "[PASS]" ELSE "[FAIL]")
    /\ idx' = idx + 1
    /\ pc' = "rhc_loop"
    /\ UNCHANGED <<args, env, config, username, pin, providers, client, jwt_token,
                   regResult, authResp, cur, lastResp, summary, pending, outcome,
                   exitCode, requests, probeCalls, raised>>

\* line 295: return results, back in main at line 403
RhcReturn ==
    /\ pc = "rhc_loop"
    /\ idx > Len(providers)
    /\ pc' = "summary"
    /\ UNCHANGED <<args, env, config, username, pin, providers, client, jwt_token,
                   regResult, authResp, idx, cur, lastResp, results, summary,
                   pending, outcome, exitCode, requests, probeCalls, stdout, raised>>

\* ------------------------------------------------------ main, lines 403-422

\* line 404
total_tests(res) == Cardinality(DOMAIN res)

\* Fault variant of line 405: the `if r["success"]` filter is dropped
passed_tests_CountAll(res) == Cardinality(DOMAIN res)

\* line 405
passed_tests(res) == Cardinality({p \in DOMAIN res : res[p].success})

\* line 406
failed_tests(res) == total_tests(res) - passed_tests(res)

\* line 413
SummaryExitCode(failed) == IF failed = 0 THEN 0 ELSE 1

\* lines 403-413: the summary and the exit code
Summary ==
    /\ pc = "summary"
    /\ summary' = [ total |-> total_tests(results),
                    passed |-> passed_tests(results),
                    failed |-> failed_tests(results) ]
    /\ stdout' = Append(stdout, "Summary")
    /\ ReturnInTry(SummaryExitCode(failed_tests(results)))
    /\ UNCHANGED <<args, env, config, username, pin, providers, client, jwt_token,
                   regResult, authResp, idx, cur, lastResp, results, requests,
                   probeCalls, raised>>

\* lines 415-417
ExceptKeyboardInterrupt ==
    /\ pc = "except_KeyboardInterrupt"
    /\ stdout' = Append(stdout, "Health check interrupted by user.")
    /\ ReturnInTry(1)
    /\ UNCHANGED <<args, env, config, username, pin, providers, client, jwt_token,
                   regResult, authResp, idx, cur, lastResp, results, summary,
                   requests, probeCalls, raised>>

\* lines 418-420
ExceptException ==
    /\ pc = "except_Exception"
    /\ stdout' = Append(stdout, "Unexpected error")
    /\ ReturnInTry(1)
    /\ UNCHANGED <<args, env, config, username, pin, providers, client, jwt_token,
                   regResult, authResp, idx, cur, lastResp, results, summary,
                   requests, probeCalls, raised>>

\* HealthChecker.close (lines 297-299)
close(c) == "closed"

\* lines 421-422: checker.close(), then the pending return or exception takes effect
Finally ==
    /\ pc = "finally"
    /\ client' = close(client)
    /\ pc' = "done"
    /\ outcome' = IF pending.kind = "return" THEN "returned" ELSE "raised"
    /\ exitCode' = IF pending.kind = "return" THEN pending.code ELSE exitCode
    /\ UNCHANGED <<args, env, config, username, pin, providers, jwt_token,
                   regResult, authResp, idx, cur, lastResp, results, summary,
                   pending, requests, probeCalls, stdout, raised>>

\* ------------------------------------------------------------------ faults

\* Statements during which a request may already be on the wire
SendingPcs == {"register", "probe_send"}

\* The path the statement at pc posts to
PathAt(at) == IF at = "register" THEN REGISTER_PATH ELSE Endpoint(providers[idx])

\* Where a KeyboardInterrupt raised at pc is handled: the except clause of line
\* 415 covers the try body only (lines 377-413); anywhere else it leaves main
KeyboardInterruptTarget(at) ==
    IF at \in TryBodyPcs THEN "except_KeyboardInterrupt"
    ELSE IF at \in HandlerPcs THEN "finally"
    ELSE "done"

\* SIGINT is delivered while the statement at pc runs: KeyboardInterrupt is raised
\* there. `except Exception` (lines 84, 130, 196, 259) does not catch it.
Interrupt ==
    /\ pc # "done"
    /\ raised' = Append(raised, [exc |-> "KeyboardInterrupt", at |-> pc])
    /\ \E sent \in (IF pc \in SendingPcs THEN BOOLEAN ELSE {FALSE}) :
         requests' = IF sent THEN Append(requests, PathAt(pc)) ELSE requests
    /\ \E closed \in (IF pc = "finally" THEN BOOLEAN ELSE {FALSE}) :
         client' = IF closed THEN close(client) ELSE client
    /\ pc' = KeyboardInterruptTarget(pc)
    /\ outcome' = IF pc' = "done" THEN "raised" ELSE outcome
    /\ pending' = IF pc' = "finally"
                  THEN [kind |-> "raise", code |-> 0, exc |-> "KeyboardInterrupt"]
                  ELSE pending
    /\ UNCHANGED <<args, env, config, username, pin, providers, jwt_token,
                   regResult, authResp, idx, cur, lastResp, results, summary,
                   exitCode, probeCalls, stdout>>

\* Statements of the try body that print outside any inner try/except: a failing
\* print (a closed or non-UTF-8 stdout) raises into main's `except Exception`
PrintingPcs == {"banner", "check_registration", "show_token", "run_health_checks",
                "rhc_loop", "rhc_record", "summary"}

\* An exception of a print statement: caught at line 418 when raised in the try
\* body, propagated after finally when raised in an except clause
UnexpectedException ==
    /\ pc \in PrintingPcs \cup HandlerPcs
    /\ raised' = Append(raised, [exc |-> "Exception", at |-> pc])
    /\ IF pc \in HandlerPcs
       THEN RaiseInHandler("Exception")
       ELSE /\ pc' = "except_Exception"
            /\ UNCHANGED <<pending, outcome, exitCode>>
    /\ UNCHANGED <<args, env, config, username, pin, providers, client, jwt_token,
                   regResult, authResp, idx, cur, lastResp, results, summary,
                   requests, probeCalls, stdout>>

\* ---------------------------------------------------------- specifications

Next ==
    \/ ParseArgs
    \/ LoadConfig
    \/ CheckCredentials
    \/ SelectProviders
    \/ Construct
    \/ EnterTry
    \/ Banner
    \/ RegisterUser
    \/ CheckRegistration
    \/ ShowToken
    \/ RunHealthChecks
    \/ RhcLoop
    \/ ProbeCall
    \/ ProbeSend
    \/ RhcRecord
    \/ RhcReturn
    \/ Summary
    \/ ExceptKeyboardInterrupt
    \/ ExceptException
    \/ Finally
    \/ Interrupt
    \/ UnexpectedException

\* One run of main()
Spec == Init /\ [][Next]_vars

MaxProviders == 2

\* Lists of at most n names
ListsUpTo(S, n) == UNION { [1..k -> S] : k \in 0..n }

\* run_health_checks is called on a registered checker with any provider list
InitRHC ==
    /\ pc = "run_health_checks"
    /\ args \in [ username : {"alice"}, pin : {"1234"}, provider : {None},
                  show_token : {FALSE}, token_only : {FALSE}, verbose : BOOLEAN ]
    /\ env \in [ OPENAI_API_KEY : {None, OPENAI_PLACEHOLDER, "sk-live"},
                 ANTHROPIC_API_KEY : {None, ANTHROPIC_PLACEHOLDER, "sk-ant-live"},
                 PROXY_TIMEOUT : {None},
                 DEFAULT_USERNAME : {None},
                 DEFAULT_PIN : {None} ]
    /\ config = load_config(env)
    /\ username = "alice"
    /\ pin = "1234"
    /\ providers \in ListsUpTo(provider_tests \cup {"unknown"}, MaxProviders)
    /\ client = "open"
    /\ jwt_token = "abc"
    /\ regResult = "ok"
    /\ authResp = HttpResponse(200, BodyTokenAbc)
    /\ idx = 0
    /\ cur = NoResult
    /\ lastResp = NoResponse
    /\ results = EmptyResults
    /\ summary = NoSummary
    /\ pending = NoPending
    /\ outcome = "running"
    /\ exitCode = -1
    /\ requests = <<REGISTER_PATH>>
    /\ probeCalls = <<>>
    /\ stdout = <<>>
    /\ raised = <<>>

NextRHC ==
    \/ RunHealthChecks
    \/ RhcLoop
    \/ ProbeCall
    \/ ProbeSend
    \/ RhcRecord
    \/ RhcReturn

\* One call of run_health_checks(providers, verbose)
SpecRHC == InitRHC /\ [][NextRHC]_vars

\* ------------------------------------------------------------- properties

\* A value is absent in the sense of the program: unset or empty
Absent(v) == v \in {None, ""}

\* Positions of requests that went to a provider endpoint
ProviderRequests == {i \in DOMAIN requests : requests[i] \in ProviderEndpoints}

\* Every probe that was invoked has returned a result with success = true
EveryInvokedProbeSucceeded ==
    \A i \in DOMAIN probeCalls :
        probeCalls[i].returned /\ probeCalls[i].result.success

\* Neither the command line nor the environment supplies a username, or a PIN
CredentialsMissing ==
    \/ Absent(args.username) /\ Absent(env.DEFAULT_USERNAME)
    \/ Absent(args.pin) /\ Absent(env.DEFAULT_PIN)

\* C1: whenever main returns, the value it returns is 0 or 1; in a run that
\* registered, was not token-only and met no exception it is 0 exactly when
\* every invoked probe returned success = true (and a probe was invoked); it is 1
\* when credentials are missing, when registration failed, and when an exception
\* (unexpected or KeyboardInterrupt) was caught during the run.
C1_ExitCodePolicy ==
    (pc = "done" /\ outcome = "returned") =>
        /\ exitCode \in {0, 1}
        /\ (regResult = "ok" /\ ~args.token_only /\ raised = <<>>) =>
              /\ Len(probeCalls) >= 1
              /\ (exitCode = 0) <=> EveryInvokedProbeSucceeded
        /\ (CredentialsMissing \/ regResult = "fail" \/ raised # <<>>) =>
              exitCode = 1

\* C1 witness: the default run (no --provider) with the opensource probe passing
\* ends with exit code 0 and the summary 1 / 1 / 0.
C1_Witness ==
    /\ pc = "done"
    /\ outcome = "returned"
    /\ exitCode = 0
    /\ args.provider = None
    /\ providers = <<"opensource">>
    /\ summary = [total |-> 1, passed |-> 1, failed |-> 0]

\* C2: once register_user has returned failure, no probe is ever invoked and no
\* request ever goes to a provider endpoint, and when main returns it returns 1.
C2_FailedRegistrationStops ==
    regResult = "fail" =>
        /\ probeCalls = <<>>
        /\ ProviderRequests = {}
        /\ (pc = "done" /\ raised = <<>>) => (outcome = "returned" /\ exitCode = 1)
        /\ (pc = "done" /\ outcome = "returned") => exitCode = 1

\* C2 witness: the authentication endpoint answered 401 and main returned 1.
C2_Witness ==
    /\ pc = "done"
    /\ outcome = "returned"
    /\ exitCode = 1
    /\ regResult = "fail"
    /\ authResp.kind = "response"
    /\ authResp.status_code = 401
    /\ requests = <<REGISTER_PATH>>

\* C3: when neither the command line nor the environment supplies a username, or
\* neither supplies a PIN, no request is ever sent (the client is not even
\* created), and the run, unless an exception ends it first, returns 1 right after
\* printing the error.
C3_MissingCredentials ==
    CredentialsMissing =>
        /\ requests = <<>>
        /\ client = "none"
        /\ (pc = "done" /\ raised = <<>>) =>
              /\ outcome = "returned"
              /\ exitCode = 1
              /\ stdout \in {<<"Error: Username is required.">>,
                             <<"Error: PIN is required.">>}
        /\ (pc = "done" /\ outcome = "returned") => exitCode = 1

\* C3 witness: an empty --username, no DEFAULT_USERNAME: main returned 1 with
\* nothing sent.
C3_Witness ==
    /\ pc = "done"
    /\ outcome = "returned"
    /\ exitCode = 1
    /\ args.username = ""
    /\ env.DEFAULT_USERNAME = None
    /\ requests = <<>>
    /\ stdout = <<"Error: Username is required.">>

\* The key of a gated provider is absent or the literal placeholder
KeyNotConfigured(p) ==
    CASE p = "openai" ->
            Absent(env.OPENAI_API_KEY) \/ env.OPENAI_API_KEY = "your_openai_api_key_here"
      [] p = "anthropic" ->
            Absent(env.ANTHROPIC_API_KEY)
            \/ env.ANTHROPIC_API_KEY = "your_anthropic_api_key_here"
      [] OTHER -> FALSE

\* C4: an openai or anthropic probe whose key is absent or the placeholder returns
\* success = false and status_code = 0 without a request; a request to the openai
\* or anthropic endpoint exists only when that key is configured and not the
\* placeholder.
C4_GatedProbesSendNothing ==
    /\ \A p \in {"openai", "anthropic"} :
          (pc = "rhc_record" /\ providers[idx] = p /\ KeyNotConfigured(p)) =>
              /\ cur.success = FALSE
              /\ cur.status_code = 0
              /\ lastResp.kind = "none"
              /\ ProviderRequests = {}
    /\ \A i \in DOMAIN requests :
          /\ requests[i] = "/openai/v1/chat/completions" => ~KeyNotConfigured("openai")
          /\ requests[i] = "/anthropic/v1/messages" => ~KeyNotConfigured("anthropic")

\* C4 witness: the anthropic probe has returned with the placeholder key configured,
\* and the only request of the run is the registration.
C4_Witness ==
    /\ pc = "rhc_record"
    /\ providers[idx] = "anthropic"
    /\ env.ANTHROPIC_API_KEY = "your_anthropic_api_key_here"
    /\ cur.error = "Anthropic API key not configured"
    /\ requests = <<REGISTER_PATH>>

\* The registration answer is HTTP 200 with a JSON body that has a token field
TokenFieldPresent ==
    /\ authResp.kind = "response"
    /\ authResp.status_code = 200
    /\ IsJson(authResp.text)
    /\ "token" \in DOMAIN JsonDecode(authResp.text)

\* C5 as stated: register_user returns success exactly when the answer is HTTP 200
\* with a token field present, and the stored credential is then that value.
C5_SuccessIffTokenPresent ==
    regResult # "none" =>
        /\ (regResult = "ok") <=> TokenFieldPresent
        /\ regResult = "ok" => jwt_token = JsonDecode(authResp.text).token

\* C5 amended: register_user returns success exactly when the answer is HTTP 200
\* with a JSON body whose token field is present and neither null nor empty, and
\* the stored credential is then that value; every other answer (200 with the
\* field absent, null or empty, 200 with an undecodable body, a non-200 status, a
\* transport failure) makes it return failure.
C5_SuccessIffTokenNonEmpty ==
    regResult # "none" =>
        /\ regResult \in {"ok", "fail"}
        /\ (regResult = "ok") <=>
              (TokenFieldPresent /\ ~Absent(JsonDecode(authResp.text).token))
        /\ regResult = "ok" => jwt_token = JsonDecode(authResp.text).token

\* C5 witness: the answer 200 {"token": "abc"} made register_user return success
\* with the credential "abc".
C5_Witness ==
    /\ pc = "check_registration"
    /\ regResult = "ok"
    /\ authResp = HttpResponse(200, BodyTokenAbc)
    /\ jwt_token = "abc"

\* C6 as stated: once a probe's request is sent, its result has success = true
\* exactly when the endpoint answered 200, whatever the body; on a non-200 answer
\* it has success = false, the answer's status and the body text as error.
C6_SuccessIffHttp200 ==
    (pc = "rhc_record" /\ lastResp.kind # "none") =>
        /\ cur.success <=> (lastResp.kind = "response" /\ lastResp.status_code = 200)
        /\ (lastResp.kind = "response" /\ lastResp.status_code # 200) =>
              /\ cur.success = FALSE
              /\ cur.status_code = lastResp.status_code
              /\ cur.error = lastResp.text

\* The token was printed by lines 390-391
TokenPrinted ==
    \E i \in 1..(Len(stdout) - 1) :
        stdout[i] = "JWT Token:" /\ stdout[i + 1] = jwt_token

\* C7: with --token-only no probe is ever invoked and no request goes to a provider
\* endpoint, whatever --provider and the keys are; and when registration succeeded
\* and no exception ended the run, main printed the token and returned 0.
C7_TokenOnly ==
    args.token_only =>
        /\ probeCalls = <<>>
        /\ ProviderRequests = {}
        /\ (pc = "done" /\ regResult = "ok" /\ raised = <<>>) =>
              /\ outcome = "returned"
              /\ exitCode = 0
              /\ TokenPrinted
              /\ requests = <<REGISTER_PATH>>

\* C7 witness: --token-only --provider openai with a live key: main returned 0
\* after the registration alone.
C7_Witness ==
    /\ pc = "done"
    /\ outcome = "returned"
    /\ exitCode = 0
    /\ args.token_only
    /\ args.provider = "openai"
    /\ env.OPENAI_API_KEY = "sk-live"
    /\ TokenPrinted

\* C8: whenever main has returned in a run that created the client, the client is
\* closed: after failed registration, the token-only return, the summary return
\* and the returns of both except clauses.
C8_ClientClosedOnReturn ==
    (outcome = "returned" /\ client # "none") => client = "closed"

\* C8 witness: a KeyboardInterrupt during a probe's request was caught, and main
\* returned 1 with the client closed.
C8_Witness ==
    /\ outcome = "returned"
    /\ exitCode = 1
    /\ client = "closed"
    /\ Len(raised) = 1
    /\ raised[1] = [exc |-> "KeyboardInterrupt", at |-> "probe_send"]

\* C9 as stated: a single KeyboardInterrupt, at whatever point of the run it
\* arrives, ends the run with main returning 1.
C9_InterruptAlwaysExitsOne ==
    (pc = "done" /\ Len(raised) = 1 /\ raised[1].exc = "KeyboardInterrupt") =>
        (outcome = "returned" /\ exitCode = 1)

IsKnownProvider(name) == name \in provider_tests

\* The listed names that have a probe, in list order
ListedProviders == SelectSeq(providers, IsKnownProvider)

SentRequest(call) == ~KeyNotConfigured(call.provider)

\* C10: run_health_checks invokes the probes of the listed providers in list order,
\* one invocation per list entry; it always goes on to the next entry whatever the
\* result was; and when it returns every entry has been invoked once, results holds
\* one result per listed provider (the one its probe returned), and every
\* invocation that was not gated has sent exactly one request.
C10_EachListedProbeOnce ==
    /\ Len(probeCalls) <= Len(ListedProviders)
    /\ \A i \in DOMAIN probeCalls : probeCalls[i].provider = ListedProviders[i]
    /\ pc # "summary" => ENABLED NextRHC
    /\ pc = "summary" =>
          /\ Len(probeCalls) = Len(ListedProviders)
          /\ \A i \in DOMAIN probeCalls : probeCalls[i].returned
          /\ DOMAIN results = {ListedProviders[i] : i \in DOMAIN ListedProviders}
          /\ \A i \in DOMAIN probeCalls :
                (\A j \in DOMAIN probeCalls : j > i =>
                    probeCalls[j].provider # probeCalls[i].provider)
                => results[probeCalls[i].provider] = probeCalls[i].result
          /\ LET sent == SelectSeq(probeCalls, SentRequest)
             IN  requests = <<REGISTER_PATH>> \o
                            [i \in 1..Len(sent) |-> Endpoint(sent[i].provider)]

\* C10 witness: run_health_checks returned after a first probe that failed and a
\* second probe, of another provider, that ran after it and passed.
C10_Witness ==
    /\ pc = "summary"
    /\ Len(probeCalls) = 2
    /\ probeCalls[1].result.success = FALSE
    /\ probeCalls[2].result.success = TRUE
    /\ probeCalls[1].provider # probeCalls[2].provider
    /\ Cardinality(DOMAIN results) = 2

=============================================================================
